---- MODULE Spec2Model ----
(***************************************************************************)
(* VANET Guardian: the crypto envelope (src/src/crypto/crypto-module.cpp)  *)
(* and the secure routing protocol (src/src/routing/secure-routing.cpp).   *)
(*                                                                         *)
(* Time is the wall clock in milliseconds.  Byte strings handled by        *)
(* OpenSSL are modelled by what the library makes of them: a DER blob is   *)
(* a record naming the structure it encodes, a signature names the key     *)
(* that made it and the bytes it covers.                                   *)
(***************************************************************************)
EXTENDS Integers, Sequences, FiniteSets, TLC

VARIABLES
    now,             \* std::chrono::system_clock::now(), in ms since the epoch
    privateKey,      \* CryptoModule::privateKey (NullPtr or a key handle)
    keyGens,         \* number of key pairs EVP_PKEY_keygen has produced so far
    sequence,        \* the function-local static of createSecureMessage
    messageHistory,  \* CryptoModule::messageHistory (std::vector)
    channel,         \* SecureMessages created so far (what a caller may hold)
    localInfo,       \* SecureRoutingProtocol::localInfo
    routingTable,    \* SecureRoutingProtocol::routingTable (std::map)
    neighborTable,   \* SecureRoutingProtocol::neighborTable (std::map)
    trustScores,     \* SecureRoutingProtocol::trustScores (std::map)
    trustUpdates,    \* number of updateTrustScore calls so far
    lastOp,          \* the last call that returned: name, arguments, result
    returned         \* TRUE until the clock moves after the last call returned

cryptoVars == <<privateKey, keyGens, sequence, messageHistory, channel>>
routerVars == <<localInfo, routingTable, neighborTable, trustScores,
                trustUpdates>>
vars == <<now, privateKey, keyGens, sequence, messageHistory, channel,
          localInfo, routingTable, neighborTable, trustScores, trustUpdates,
          lastOp, returned>>

(***************************************************************************)
(* Program constants.                                                      *)
(***************************************************************************)
MAX_MESSAGE_HISTORY == 1000
MESSAGE_TIMEOUT == 5000

\* trust scores are doubles; the model keeps them in millionths, which is
\* exact for the scores and the number of updates it follows
FixedPoint == 10 ^ 6
MAX_TRUST_SCORE == FixedPoint
MIN_TRUST_SCORE == 0
TRUST_THRESHOLD == FixedPoint \div 2
MAX_SPEED == 200
MAX_ACCELERATION == 10
ROUTE_TIMEOUT == 60
NEIGHBOR_TIMEOUT == 10
MAX_HOP_COUNT == 10
MsPerSecond == 10 ^ 3

(***************************************************************************)
(* Bounds of the model.                                                    *)
(***************************************************************************)
StartTime == 100000     \* the wall clock when the instance is constructed
MaxElapsed == 5001      \* the clock is followed for this many ms
MaxSent == 2            \* createSecureMessage calls followed
MaxHist == 2            \* records inserted by hand in the envelope runs
MaxKeyGens == 1         \* successful key generations followed
MaxRouterElapsed == 60001  \* the clock is followed this long for a router
MaxTrustUpdates == 1    \* updateTrustScore calls followed
MaxTrustRounds == 3     \* updateTrustScore calls followed about a next hop
MaxPeerSent == 1        \* createSecureMessage calls of a second instance
MaxMovementElapsed == 45000  \* the clock is followed this long for movements
MaxSubSecondElapsed == 500   \* and this long in steps of less than a second

Payloads == {<<"test">>}
NullPtr == 0

(***************************************************************************)
(* Byte strings as OpenSSL reads them.                                     *)
(***************************************************************************)
EmptyBytes == [der |-> "empty", key |-> NullPtr]
X509Der(k) == [der |-> "X509", key |-> k]
SpkiDer(k) == [der |-> "SPKI", key |-> k]

\* d2i_X509: a certificate handle, or NullPtr when the bytes are no DER X.509
d2i_X509(bytes) == IF bytes.der = "X509" THEN bytes.key ELSE NullPtr

\* d2i_PUBKEY: a key handle, or NullPtr when the bytes are no DER
\* SubjectPublicKeyInfo (an empty buffer and an X.509 certificate are none)
d2i_PUBKEY(bytes) == IF bytes.der = "SPKI" THEN bytes.key ELSE NullPtr

\* EVP_DigestSign over `message` with key handle `key`
EVP_DigestSign(message, key) == [signer |-> key, over |-> message]

\* EVP_DigestVerify: the signature was made by `key` over `message`
EVP_DigestVerify(message, signature, key) ==
    signature.signer = key /\ signature.over = message

NoSignature == [signer |-> NullPtr, over |-> <<<<>>, 0, 0>>]

\* payload ‖ timestamp ‖ sequenceNumber, the bytes that are signed
toSign(payload, timestamp, sequenceNumber) ==
    <<payload, timestamp, sequenceNumber>>

\* hashMessage with the default algorithm
hashMessage(payload) == <<"SHA256", payload>>

NoMessage ==
    [payload |-> <<>>, signature |-> NoSignature, timestamp |-> 0,
     sequenceNumber |-> 0, senderCert |-> EmptyBytes]

(***************************************************************************)
(* Unsigned 64-bit subtraction.  `now` is a signed 64-bit count and is     *)
(* converted to uint64_t when subtracted from a uint64_t, so a - b is      *)
(* computed modulo 2^64.  Every time of the model is below 2^31, so the    *)
(* result is a - b when a >= b and 2^64 - (b - a) otherwise; the second    *)
(* is written as a wrapped value, which exceeds every constant of the      *)
(* program.                                                                *)
(***************************************************************************)
U64Sub(a, b) ==
    IF a >= b THEN [wrapped |-> FALSE, value |-> a - b]
              ELSE [wrapped |-> TRUE, value |-> b - a]

\* d <= c for an unsigned difference d and a constant c < 2^63
U64Leq(d, c) == ~d.wrapped /\ d.value <= c

\* (the comparison taken strict)
isValidTimestamp_Strict(clock, timestamp) ==
    ~U64Sub(clock, timestamp).wrapped
        /\ U64Sub(clock, timestamp).value < MESSAGE_TIMEOUT

isValidTimestamp(clock, timestamp) ==
    U64Leq(U64Sub(clock, timestamp), MESSAGE_TIMEOUT)

isReplayMessage(history, message) ==
    \E i \in 1..Len(history) :
        /\ history[i].timestamp = message.timestamp
        /\ history[i].sequenceNumber = message.sequenceNumber

\* verifyCertificate is declared in crypto-module.h and defined nowhere in
\* the sources; the specification says the stub passes empty certificates.
verifyCertificate(cert) == TRUE

verifySignature(message, signature, publicKeyBytes) ==
    LET key == d2i_PUBKEY(publicKeyBytes)
    IN  IF key = NullPtr THEN FALSE
        ELSE EVP_DigestVerify(message, signature, key)

\* verifySecureMessage with the replay lookup ahead of the freshness test
verifySecureMessage_ReplayFirst(clock, history, message) ==
    IF isReplayMessage(history, message)
    THEN [ret |-> FALSE, line |-> 215]
    ELSE IF ~isValidTimestamp(clock, message.timestamp)
    THEN [ret |-> FALSE, line |-> 210]
    ELSE IF message.senderCert # EmptyBytes
            /\ (d2i_X509(message.senderCert) = NullPtr
                \/ ~verifyCertificate(EmptyBytes))
    THEN [ret |-> FALSE, line |-> 224]
    ELSE [ret |-> verifySignature(
                      toSign(message.payload, message.timestamp,
                             message.sequenceNumber),
                      message.signature, message.senderCert),
          line |-> 238]

\* verifySecureMessage: the result and the line of the return statement taken
verifySecureMessage(clock, history, message) ==
    IF ~isValidTimestamp(clock, message.timestamp)
    THEN [ret |-> FALSE, line |-> 210]
    ELSE IF isReplayMessage(history, message)
    THEN [ret |-> FALSE, line |-> 215]
    ELSE IF message.senderCert # EmptyBytes
            /\ (d2i_X509(message.senderCert) = NullPtr
                \/ ~verifyCertificate(EmptyBytes))
    THEN [ret |-> FALSE, line |-> 224]
    ELSE [ret |-> verifySignature(
                      toSign(message.payload, message.timestamp,
                             message.sequenceNumber),
                      message.signature, message.senderCert),
          line |-> 238]

\* pruneMessageHistory: std::remove_if keeps the order of what stays
pruneMessageHistory(clock, history) ==
    LET Keep(h) == U64Leq(U64Sub(clock, h.timestamp), MESSAGE_TIMEOUT)
    IN  SelectSeq(history, Keep)

updateMessageHistory(clock, history, message) ==
    LET pushed == Append(history,
                         [timestamp |-> message.timestamp,
                          sequenceNumber |-> message.sequenceNumber,
                          messageHash |-> hashMessage(message.payload)])
    IN  IF Len(pushed) > MAX_MESSAGE_HISTORY
        THEN pruneMessageHistory(clock, pushed)
        ELSE pushed

(***************************************************************************)
(* Observation of calls: the operation, its arguments, what it returned    *)
(* (ret), whether it raised (threw), the line of the return statement      *)
(* taken, and, for the calls that look for replays, whether the call       *)
(* before it was the same call (repeat, with that call's result in         *)
(* prevRet).                                                               *)
(***************************************************************************)
Repeated(op, msg, arg) ==
    /\ op \in {"verifySecureMessage", "isReplayMessage", "detectReplay"}
    /\ lastOp.op = op
    /\ lastOp.msg = msg
    /\ lastOp.arg = arg

Call(op, msg, arg, ret, threw, line) ==
    [op |-> op, msg |-> msg, arg |-> arg, ret |-> ret, threw |-> threw,
     line |-> line,
     repeat |-> Repeated(op, msg, arg),
     prevRet |-> (Repeated(op, msg, arg) /\ lastOp.ret)]

NoCall ==
    [op |-> "none", msg |-> NoMessage, arg |-> <<>>, ret |-> FALSE,
     threw |-> FALSE, line |-> 0, repeat |-> FALSE, prevRet |-> FALSE]

Observe(call) ==
    /\ lastOp' = call
    /\ returned' = TRUE

(***************************************************************************)
(* The routing protocol's data.                                            *)
(***************************************************************************)
vehicleId == "self"
VehicleIds == {vehicleId, "n1"}
Destinations == {"d1"}
Points == {<<0, 0, 0>>, <<10, 0, 0>>, <<1000, 0, 0>>}
\* what an uninitialized position is followed as
UninitializedPoints == {<<0, 0, 0>>, <<1000, 0, 0>>}

Position(point, timestamp) ==
    [x |-> point[1], y |-> point[2], z |-> point[3], timestamp |-> timestamp]

VehicleInfo(id, position, trustScore) ==
    [id |-> id, position |-> position, trustScore |-> trustScore]

RouteEntry(nextHop, hopCount, timestamp, trustScore) ==
    [nextHop |-> nextHop, hopCount |-> hopCount, timestamp |-> timestamp,
     trustScore |-> trustScore]

EmptyMap == <<>>

\* std::map::operator[]= and std::map::erase
MapPut(map, key, value) ==
    [k \in DOMAIN map \cup {key} |-> IF k = key THEN value ELSE map[k]]

MapErase(map, key) == [k \in DOMAIN map \ {key} |-> map[k]]

\* SecureRoutingProtocol::SecureRoutingProtocol: the id and the trust score
\* of localInfo are set; the coordinates of its position are left
\* uninitialized (any value), its time point is the epoch
RouterConstructed ==
    /\ \E point \in UninitializedPoints :
            localInfo = VehicleInfo(vehicleId, Position(point, 0),
                                    MAX_TRUST_SCORE)
    /\ routingTable = EmptyMap
    /\ neighborTable = EmptyMap
    /\ trustScores = EmptyMap
    /\ trustUpdates = 0

(***************************************************************************)
(* Movement plausibility.                                                  *)
(***************************************************************************)
\* std::chrono::duration_cast<seconds>: truncation toward zero
ToSeconds(ms) ==
    IF ms >= 0 THEN ms \div MsPerSecond ELSE 0 - ((0 - ms) \div MsPerSecond)

SquaredDistance(pos1, pos2) ==
    (pos1.x - pos2.x) * (pos1.x - pos2.x)
        + (pos1.y - pos2.y) * (pos1.y - pos2.y)
        + (pos1.z - pos2.z) * (pos1.z - pos2.z)

Abs(v) == IF v < 0 THEN 0 - v ELSE v

\* calculateDistance: the square root, which lies between the largest
\* coordinate difference and their sum; the points of the model are at
\* whole distances
calculateDistance(pos1, pos2) ==
    LET dx == Abs(pos1.x - pos2.x)
        dy == Abs(pos1.y - pos2.y)
        dz == Abs(pos1.z - pos2.z)
        lo == IF dx >= dy /\ dx >= dz THEN dx ELSE IF dy >= dz THEN dy ELSE dz
    IN  CHOOSE d \in lo..(dx + dy + dz) : d * d = SquaredDistance(pos1, pos2)

\* isValidMovement, in whole numbers: with distance d in m and timeElapsed
\* t > 0 in s, speed = d / t * 3.6 km/h, so speed > MAX_SPEED is
\* 36 d > 10 MAX_SPEED t, and acceleration = speed / t <= MAX_ACCELERATION
\* is 36 d <= 10 MAX_ACCELERATION t t
isValidMovement(oldPos, newPos, timeElapsed) ==
    LET distance == calculateDistance(oldPos, newPos)
    IN  IF timeElapsed <= 0 THEN FALSE
        ELSE IF 36 * distance > 10 * MAX_SPEED * timeElapsed THEN FALSE
        ELSE 36 * distance
                <= 10 * MAX_ACCELERATION * timeElapsed * timeElapsed

detectBlackHole(suspectId) == FALSE

detectSybil(suspectId) == FALSE

detectPositionFalsification(neighbors, id, reportedPos) ==
    IF id \notin DOMAIN neighbors THEN FALSE
    ELSE LET lastPos == neighbors[id].position
         IN  ~isValidMovement(lastPos, reportedPos,
                              ToSeconds(reportedPos.timestamp
                                            - lastPos.timestamp))

(***************************************************************************)
(* Trust.                                                                  *)
(***************************************************************************)
Clamp(v, lo, hi) == IF v < lo THEN lo ELSE IF v > hi THEN hi ELSE v

Halve(score) == (score * 5) \div 10

calculateTrust(scores, neighbors, id) ==
    IF id \notin DOMAIN scores THEN MIN_TRUST_SCORE
    ELSE LET s0 == scores[id]
             s1 == IF detectBlackHole(id) \/ detectSybil(id)
                   THEN Halve(s0) ELSE s0
             s2 == IF id \in DOMAIN neighbors
                      /\ detectPositionFalsification(neighbors, id,
                                                     neighbors[id].position)
                   THEN Halve(s1) ELSE s1
         IN  Clamp(s2, MIN_TRUST_SCORE, MAX_TRUST_SCORE)

isVehicleTrusted(scores, neighbors, id) ==
    calculateTrust(scores, neighbors, id) >= TRUST_THRESHOLD

\* updateTrustScore with the weights of the observation and of the stored
\* score exchanged
updateTrustScore_SwappedAlpha(scores, id, score) ==
    LET currentScore == IF id \in DOMAIN scores THEN scores[id] ELSE 0
    IN  MapPut(scores, id, (7 * score + 3 * currentScore) \div 10)

\* updateTrustScore: trustScores[id] inserts 0.0 for an unknown id;
\* alpha = 0.3
updateTrustScore(scores, id, score) ==
    LET currentScore == IF id \in DOMAIN scores THEN scores[id] ELSE 0
    IN  MapPut(scores, id, (3 * score + 7 * currentScore) \div 10)

(***************************************************************************)
(* Tables.                                                                 *)
(***************************************************************************)
RouteExpired(clock, entry) ==
    entry.timestamp + ROUTE_TIMEOUT * MsPerSecond < clock

NeighborExpired(clock, info) ==
    info.position.timestamp + NEIGHBOR_TIMEOUT * MsPerSecond < clock

pruneRoutes(clock, routes) ==
    [d \in {k \in DOMAIN routes : ~RouteExpired(clock, routes[k])}
        |-> routes[d]]

pruneNeighbors(clock, neighbors) ==
    [n \in {k \in DOMAIN neighbors : ~NeighborExpired(clock, neighbors[k])}
        |-> neighbors[n]]

\* (the hop limit taken one too high)
updateRoute_OffByOne(clock, routes, destination, entry) ==
    IF entry.hopCount > MAX_HOP_COUNT
    THEN [ret |-> FALSE, line |-> 117, routingTable |-> routes]
    ELSE IF RouteExpired(clock, entry)
    THEN [ret |-> FALSE, line |-> 122, routingTable |-> routes]
    ELSE [ret |-> TRUE, line |-> 126,
          routingTable |-> MapPut(routes, destination, entry)]

\* updateRoute: the result and the routing table after the call
updateRoute(clock, routes, destination, entry) ==
    IF entry.hopCount >= MAX_HOP_COUNT
    THEN [ret |-> FALSE, line |-> 117, routingTable |-> routes]
    ELSE IF RouteExpired(clock, entry)
    THEN [ret |-> FALSE, line |-> 122, routingTable |-> routes]
    ELSE [ret |-> TRUE, line |-> 126,
          routingTable |-> MapPut(routes, destination, entry)]

(***************************************************************************)
(* Receiving.                                                              *)
(***************************************************************************)
\* crypto::CryptoModule::SecureMessage{}: every member value-initialized
ValueInitializedMessage == NoMessage

\* the VehicleInfo that processBeacon declares and never fills: an empty
\* id; the remaining members are left uninitialized
UnparsedInfo(point) == VehicleInfo("", Position(point, 0), MIN_TRUST_SCORE)

Tables(ret, line, neighbors, scores) ==
    [ret |-> ret, line |-> line, neighborTable |-> neighbors,
     trustScores |-> scores]

processBeacon(clock, history, neighbors, scores, beacon, point) ==
    IF ~verifySecureMessage(clock, history, ValueInitializedMessage).ret
    THEN Tables(FALSE, 194, neighbors, scores)
    ELSE Tables(TRUE, 203, MapPut(neighbors, "", UnparsedInfo(point)),
                updateTrustScore(scores, "", MAX_TRUST_SCORE))

\* message type tags; a tag above DATA is not a MessageType
HELLO == 0
DATA == 4

verifyRoutingMessage(clock, history, message) ==
    IF message = <<>> THEN FALSE
    ELSE IF message[1] > DATA THEN FALSE
    ELSE verifySecureMessage(clock, history, ValueInitializedMessage).ret

\* (the handler's table update made before the envelope is verified)
receiveMessage_Eager(clock, history, neighbors, scores, message, point) ==
    IF ~verifyRoutingMessage(clock, history, message)
    THEN Tables(FALSE, 77, MapPut(neighbors, "", UnparsedInfo(point)),
                updateTrustScore(scores, "", MAX_TRUST_SCORE))
    ELSE IF message[1] = HELLO
    THEN processBeacon(clock, history, neighbors, scores, message, point)
    ELSE Tables(TRUE, 99, neighbors, scores)

receiveMessage(clock, history, neighbors, scores, message, point) ==
    IF ~verifyRoutingMessage(clock, history, message)
    THEN Tables(FALSE, 77, neighbors, scores)
    ELSE IF message[1] = HELLO
    THEN processBeacon(clock, history, neighbors, scores, message, point)
    ELSE Tables(TRUE, 99, neighbors, scores)

\* a CryptoModule used on its own, as in testCryptoModule: there is no
\* routing instance, and its variables stay as they are here
NoRouter ==
    /\ localInfo = VehicleInfo(vehicleId, Position(<<0, 0, 0>>, 0),
                               MAX_TRUST_SCORE)
    /\ routingTable = EmptyMap
    /\ neighborTable = EmptyMap
    /\ trustScores = EmptyMap
    /\ trustUpdates = 0

(***************************************************************************)
(* The state after construction (CryptoModule::CryptoModule).              *)
(***************************************************************************)
CryptoConstructed ==
    /\ privateKey = NullPtr
    /\ keyGens = 0
    /\ sequence = 0
    /\ messageHistory = <<>>
    /\ channel = {}

InitCrypto ==
    /\ now = StartTime
    /\ CryptoConstructed
    /\ NoRouter
    /\ lastOp = NoCall
    /\ returned = TRUE

\* a routing instance, which owns its CryptoModule
Init ==
    /\ now = StartTime
    /\ CryptoConstructed
    /\ RouterConstructed
    /\ lastOp = NoCall
    /\ returned = TRUE

(***************************************************************************)
(* The clock.                                                              *)
(***************************************************************************)
Advance(steps, limit) ==
    \E d \in steps :
        /\ now + d <= StartTime + limit
        /\ now' = now + d
        /\ returned' = FALSE
        /\ UNCHANGED <<cryptoVars, routerVars, lastOp>>

EnvelopeSteps == {MESSAGE_TIMEOUT, MESSAGE_TIMEOUT + 1}

AdvanceEnvelope == Advance(EnvelopeSteps, MaxElapsed)

(***************************************************************************)
(* CryptoModule's public operations.                                       *)
(***************************************************************************)
\* generateKeyPair: EVP_PKEY_keygen may fail, and then nothing is retained
GenerateKeyPair ==
    \E ok \in BOOLEAN :
        /\ keyGens < MaxKeyGens
        /\ IF ok
           THEN /\ privateKey' = keyGens + 1
                /\ keyGens' = keyGens + 1
           ELSE UNCHANGED <<privateKey, keyGens>>
        /\ Observe(Call("generateKeyPair", NoMessage, <<>>, ok, FALSE, 77))
        /\ UNCHANGED <<now, sequence, messageHistory, channel, routerVars>>

\* signMessage throws std::runtime_error when no private key is loaded
signMessage(message, key) == EVP_DigestSign(message, key)

\* the certificate member is set to nullptr by the constructor and by
\* nothing else in the sources, so no certificate is attached
certificate == NullPtr

createdMessage(clock, seq, key, payload) ==
    [payload |-> payload,
     signature |-> signMessage(toSign(payload, clock, seq), key),
     timestamp |-> clock,
     sequenceNumber |-> seq,
     senderCert |-> IF certificate # NullPtr THEN X509Der(certificate)
                                             ELSE EmptyBytes]

\* createSecureMessage: the counter is incremented before signMessage runs
CreateSecureMessageUpTo(limit) ==
    \E payload \in Payloads :
        /\ sequence < limit
        /\ sequence' = sequence + 1
        /\ IF privateKey = NullPtr
           THEN /\ channel' = channel
                /\ Observe(Call("createSecureMessage", NoMessage,
                                <<payload>>, FALSE, TRUE, 117))
           ELSE LET msg == createdMessage(now, sequence + 1, privateKey,
                                          payload)
                IN  /\ channel' = channel \cup {msg}
                    /\ Observe(Call("createSecureMessage", msg,
                                    <<payload>>, TRUE, FALSE, 204))
        /\ UNCHANGED <<now, privateKey, keyGens, messageHistory, routerVars>>

CreateSecureMessage == CreateSecureMessageUpTo(MaxSent)

\* messages a caller can present: the ones created, and forged ones
\* (a timestamp around the freshness window, signed or not, with the
\* sender's certificate or public key attached or not)
TimestampOffsets ==
    {0 - (MESSAGE_TIMEOUT + 1), 0 - MESSAGE_TIMEOUT, 1,
     MESSAGE_TIMEOUT, MESSAGE_TIMEOUT + 1}

Forged(clock, off, signed, cert) ==
    [payload |-> <<"test">>,
     signature |-> IF signed
                   THEN EVP_DigestSign(toSign(<<"test">>, clock + off, 1), 1)
                   ELSE NoSignature,
     timestamp |-> clock + off,
     sequenceNumber |-> 1,
     senderCert |-> cert]

ForgedMessages(clock) ==
    {Forged(clock, off, TRUE, EmptyBytes) : off \in TimestampOffsets}
        \cup {Forged(clock, 0, signed, cert) :
                signed \in BOOLEAN,
                cert \in {EmptyBytes, X509Der(1), SpkiDer(1)}}

Presentable == channel \cup ForgedMessages(now)

\* what the history operations are followed on: created messages and one
\* message of the same shape made by a peer at this instant
Recordable == channel \cup {Forged(now, 0, TRUE, EmptyBytes)}

VerifySecureMessage ==
    \E message \in Presentable :
        LET r == verifySecureMessage(now, messageHistory, message)
        IN  /\ Observe(Call("verifySecureMessage", message, <<>>, r.ret,
                            FALSE, r.line))
            /\ UNCHANGED <<now, cryptoVars, routerVars>>

IsReplayMessage ==
    \E message \in Recordable :
        /\ Observe(Call("isReplayMessage", message, <<>>,
                        isReplayMessage(messageHistory, message), FALSE, 247))
        /\ UNCHANGED <<now, cryptoVars, routerVars>>

UpdateMessageHistory ==
    \E message \in Recordable :
        /\ Len(messageHistory) < MaxHist
        /\ messageHistory' = updateMessageHistory(now, messageHistory, message)
        /\ Observe(Call("updateMessageHistory", message, <<>>, TRUE, FALSE, 262))
        /\ UNCHANGED <<now, privateKey, keyGens, sequence, channel,
                       routerVars>>

NextCrypto ==
    \/ AdvanceEnvelope
    \/ GenerateKeyPair
    \/ CreateSecureMessage
    \/ VerifySecureMessage
    \/ IsReplayMessage
    \/ UpdateMessageHistory

SpecCrypto == InitCrypto /\ [][NextCrypto]_vars

(***************************************************************************)
(* The replay cache near its capacity.  The cache starts with n records    *)
(* of messages received one per millisecond up to the start, n close to    *)
(* MAX_MESSAGE_HISTORY, as n calls of updateMessageHistory leave it, and   *)
(* insertions are followed while the cache is that close to its capacity.  *)
(***************************************************************************)
FilledHistory(clock, n) ==
    [i \in 1..n |->
        [timestamp |-> clock - (n - i),
         sequenceNumber |-> i,
         messageHash |-> hashMessage(<<"test">>)]]

InitReplayCache ==
    /\ now = StartTime
    /\ privateKey = NullPtr
    /\ keyGens = 0
    /\ sequence = 0
    /\ \E n \in (MAX_MESSAGE_HISTORY - MaxHist)..MAX_MESSAGE_HISTORY :
            messageHistory = FilledHistory(StartTime, n)
    /\ channel = {}
    /\ NoRouter
    /\ lastOp = NoCall
    /\ returned = TRUE

RecordMessage ==
    \E message \in Recordable :
        /\ Len(messageHistory) >= MAX_MESSAGE_HISTORY - MaxHist
        /\ Len(messageHistory) < MAX_MESSAGE_HISTORY + MaxHist
        /\ messageHistory' = updateMessageHistory(now, messageHistory, message)
        /\ Observe(Call("updateMessageHistory", message, <<>>, TRUE, FALSE,
                        262))
        /\ UNCHANGED <<now, privateKey, keyGens, sequence, channel,
                       routerVars>>

\* long enough for records to time out and for their successors to do so
AdvanceReplayCache == Advance(EnvelopeSteps, 2 * MaxElapsed)

NextReplayCache ==
    \/ AdvanceReplayCache
    \/ RecordMessage

SpecReplayCache == InitReplayCache /\ [][NextReplayCache]_vars

(***************************************************************************)
(* SecureRoutingProtocol's public operations.  The SecureMessage that an   *)
(* operation creates is a local of the operation and is handed to nobody:  *)
(* what remains of createSecureMessage is the incremented counter, and the *)
(* exception of signMessage when no private key is loaded.                 *)
(***************************************************************************)
RouterSteps ==
    {2 * NEIGHBOR_TIMEOUT * MsPerSecond + 1, ROUTE_TIMEOUT * MsPerSecond + 1}

AdvanceRouter == Advance(RouterSteps, MaxRouterElapsed)

TrustInputs == {(3 * FixedPoint) \div 10, FixedPoint}
HopCounts == {MAX_HOP_COUNT - 1, MAX_HOP_COUNT, MAX_HOP_COUNT + 1}
RouteAges == {0, ROUTE_TIMEOUT * MsPerSecond + 1}
RawMessages == {<<>>, <<HELLO>>, <<DATA>>, <<DATA + 1>>}

InitializeVehicle ==
    /\ keyGens < MaxKeyGens
    /\ \/ /\ UNCHANGED <<localInfo, privateKey, keyGens>>
          /\ Observe(Call("initializeVehicle", NoMessage, <<"other">>,
                          FALSE, FALSE, 30))
       \/ \E point \in {<<0, 0, 0>>}, ok \in BOOLEAN,
             trust \in {MIN_TRUST_SCORE, MAX_TRUST_SCORE} :
             /\ localInfo' = VehicleInfo(vehicleId, Position(point, now),
                                         trust)
             /\ IF ok
                THEN /\ privateKey' = keyGens + 1
                     /\ keyGens' = keyGens + 1
                ELSE UNCHANGED <<privateKey, keyGens>>
             /\ Observe(Call("initializeVehicle", NoMessage, <<vehicleId>>,
                             ok, FALSE, 34))
    /\ UNCHANGED <<now, sequence, messageHistory, channel, routingTable,
                   neighborTable, trustScores, trustUpdates>>

\* updatePosition with a position at point, taken now; from is what is
\* noted of the stored position next to the argument
UpdatePositionTo(point, from) ==
    LET newPos == Position(point, now)
        valid == isValidMovement(localInfo.position, newPos,
                     ToSeconds(newPos.timestamp
                                   - localInfo.position.timestamp))
    IN  /\ IF valid
           THEN /\ localInfo' = [localInfo EXCEPT !.position = newPos]
                /\ routingTable' = pruneRoutes(now, routingTable)
                /\ neighborTable' = pruneNeighbors(now, neighborTable)
           ELSE UNCHANGED <<localInfo, routingTable, neighborTable>>
        /\ Observe(Call("updatePosition", NoMessage, <<point>> \o from,
                        valid, FALSE, IF valid THEN 46 ELSE 41))
        /\ UNCHANGED <<now, cryptoVars, trustScores, trustUpdates>>

UpdatePosition == \E point \in Points : UpdatePositionTo(point, <<>>)

ReceiveMessageOf(messages) ==
    \E message \in messages, point \in UninitializedPoints :
        LET r == receiveMessage(now, messageHistory, neighborTable,
                                trustScores, message, point)
        IN  /\ neighborTable' = r.neighborTable
            /\ trustScores' = r.trustScores
            /\ Observe(Call("receiveMessage", NoMessage, <<message>>, r.ret,
                            FALSE, r.line))
            /\ UNCHANGED <<now, cryptoVars, localInfo, routingTable,
                           trustUpdates>>

ReceiveMessage == ReceiveMessageOf(RawMessages)

ProcessBeacon ==
    \E message \in {<<HELLO>>}, point \in UninitializedPoints :
        LET r == processBeacon(now, messageHistory, neighborTable,
                               trustScores, message, point)
        IN  /\ neighborTable' = r.neighborTable
            /\ trustScores' = r.trustScores
            /\ Observe(Call("processBeacon", NoMessage, <<message>>, r.ret,
                            FALSE, r.line))
            /\ UNCHANGED <<now, cryptoVars, localInfo, routingTable,
                           trustUpdates>>

UpdateRouteOf(nextHops, hopCounts, ages) ==
    \E destination \in Destinations, nextHop \in nextHops,
       hopCount \in hopCounts, age \in ages :
        LET entry == RouteEntry(nextHop, hopCount, now - age, MAX_TRUST_SCORE)
            r == updateRoute(now, routingTable, destination, entry)
        IN  /\ routingTable' = r.routingTable
            /\ Observe(Call("updateRoute", NoMessage,
                            <<destination, entry>>, r.ret, FALSE, r.line))
            /\ UNCHANGED <<now, cryptoVars, localInfo, neighborTable,
                           trustScores, trustUpdates>>

UpdateRoute == UpdateRouteOf({"n1"}, HopCounts, RouteAges)

UpdateTrustScoreOf(ids, limit) ==
    \E id \in ids, score \in TrustInputs :
        /\ trustUpdates < limit
        /\ trustUpdates' = trustUpdates + 1
        /\ trustScores' = updateTrustScore(trustScores, id, score)
        /\ Observe(Call("updateTrustScore", NoMessage, <<id, score>>, TRUE,
                        FALSE, 174))
        /\ UNCHANGED <<now, cryptoVars, localInfo, routingTable,
                       neighborTable>>

UpdateTrustScore == UpdateTrustScoreOf(VehicleIds, MaxTrustUpdates)

DetectReplay ==
    \E message \in {<<HELLO>>} :
        /\ Observe(Call("detectReplay", NoMessage, <<message>>,
                        isReplayMessage(messageHistory,
                                        ValueInitializedMessage),
                        FALSE, 219))
        /\ UNCHANGED <<now, cryptoVars, routerVars>>

DetectPositionFalsification ==
    \E id \in VehicleIds, point \in {<<1000, 0, 0>>} :
        /\ Observe(Call("detectPositionFalsification", NoMessage,
                        <<id, point>>,
                        detectPositionFalsification(neighborTable, id,
                                                    Position(point, now)),
                        FALSE, 232))
        /\ UNCHANGED <<now, cryptoVars, routerVars>>

\* what a createSecureMessage call of the router leaves behind
createSecureMessage ==
    /\ sequence' = sequence + 1
    /\ UNCHANGED <<privateKey, keyGens, messageHistory, channel>>

FindRoute ==
    \E destination \in Destinations :
        /\ sequence < MaxSent
        /\ createSecureMessage
        /\ Observe(Call("findRoute", NoMessage, <<destination>>,
                        privateKey # NullPtr, privateKey = NullPtr,
                        IF privateKey = NullPtr THEN 117 ELSE 112))
        /\ UNCHANGED <<now, routerVars>>

SendBeacon ==
    /\ sequence < MaxSent
    /\ createSecureMessage
    /\ Observe(Call("sendBeacon", NoMessage, <<>>,
                    privateKey # NullPtr, privateKey = NullPtr,
                    IF privateKey = NullPtr THEN 117 ELSE 185))
    /\ UNCHANGED <<now, routerVars>>

InvalidateRoute ==
    \E destination \in Destinations :
        /\ sequence < MaxSent
        /\ IF destination \in DOMAIN routingTable
           THEN /\ routingTable' = MapErase(routingTable, destination)
                /\ createSecureMessage
                /\ Observe(Call("invalidateRoute", NoMessage,
                                <<destination>>,
                                privateKey # NullPtr, privateKey = NullPtr,
                                IF privateKey = NullPtr THEN 117 ELSE 139))
           ELSE /\ UNCHANGED <<cryptoVars, routingTable>>
                /\ Observe(Call("invalidateRoute", NoMessage,
                                <<destination>>, FALSE, FALSE, 141))
        /\ UNCHANGED <<now, localInfo, neighborTable, trustScores,
                       trustUpdates>>

\* sendData with a route for the destination in the table
SendDataRouted(destination) ==
    LET trusted == isVehicleTrusted(trustScores, neighborTable,
                                    routingTable[destination].nextHop)
    IN  /\ destination \in DOMAIN routingTable
        /\ createSecureMessage
        /\ routingTable' = IF trusted THEN routingTable
                           ELSE MapErase(routingTable, destination)
        /\ Observe(Call("sendData", NoMessage, <<destination>>,
                        trusted /\ privateKey # NullPtr,
                        privateKey = NullPtr,
                        IF privateKey = NullPtr THEN 117
                        ELSE IF trusted THEN 72 ELSE 60))

\* sendData without one: findRoute signs a request and returns true, the
\* table is searched again, and the end iterator it yields is dereferenced.
\* The read is undefined: the process stops, or the bytes read name a next
\* hop that is trusted or is not.
SendDataUnrouted(destination) ==
    /\ destination \notin DOMAIN routingTable
    /\ UNCHANGED routingTable
    /\ IF privateKey = NullPtr
       THEN /\ createSecureMessage
            /\ Observe(Call("sendData", NoMessage, <<destination>>,
                            FALSE, TRUE, 117))
       ELSE \E outcome \in {"stops", "untrusted", "trusted"} :
            /\ UNCHANGED <<privateKey, keyGens, messageHistory, channel>>
            /\ sequence' = IF outcome = "trusted" THEN sequence + 2
                                                  ELSE sequence + 1
            /\ Observe(Call("sendData", NoMessage, <<destination>>,
                            outcome = "trusted", outcome = "stops",
                            IF outcome = "trusted" THEN 72
                            ELSE IF outcome = "untrusted" THEN 60 ELSE 58))

SendData ==
    \E destination \in Destinations :
        /\ sequence + 2 <= MaxSent
        /\ \/ SendDataRouted(destination)
           \/ SendDataUnrouted(destination)
        /\ UNCHANGED <<now, localInfo, neighborTable, trustScores,
                       trustUpdates>>

Next ==
    \/ AdvanceRouter
    \/ InitializeVehicle
    \/ UpdatePosition
    \/ SendData
    \/ ReceiveMessage
    \/ FindRoute
    \/ UpdateRoute
    \/ InvalidateRoute
    \/ UpdateTrustScore
    \/ SendBeacon
    \/ ProcessBeacon
    \/ DetectReplay
    \/ DetectPositionFalsification

Spec == Init /\ [][Next]_vars

(***************************************************************************)
(* The trust of a next hop.  A routing instance on which a route is        *)
(* installed and the observations about its next hop are followed long     *)
(* enough for the next hop to become trusted and to lose the trust again.  *)
(***************************************************************************)
NextHops == {"n1"}

UpdateNextHopTrust == UpdateTrustScoreOf(NextHops, MaxTrustRounds)

NextTrust ==
    \/ AdvanceRouter
    \/ InitializeVehicle
    \/ UpdateRoute
    \/ UpdateNextHopTrust
    \/ SendData

SpecTrust == Init /\ [][NextTrust]_vars

(***************************************************************************)
(* Beacons.  A peer's sendBeacon builds the bytes of a HELLO with          *)
(* createRoutingMessage, and this vehicle receives them at that instant.   *)
(***************************************************************************)
\* createRoutingMessage: the type tag, the source id, the destination id
\* and the time in milliseconds
createRoutingMessage(type, source, destination, clock) ==
    <<type, source, destination, clock>>

Peers == {"n1", "n2"}

ReceiveBeacon ==
    \E peer \in Peers :
        ReceiveMessageOf({createRoutingMessage(HELLO, peer, "", now)})

NextBeacon ==
    \/ AdvanceRouter
    \/ InitializeVehicle
    \/ UpdatePosition
    \/ ReceiveBeacon

SpecBeacon == Init /\ [][NextBeacon]_vars

(***************************************************************************)
(* Neighbours.  calculateTrust and isVehicleTrusted are functions of the   *)
(* trust scores and the neighbour table; they are followed here on the     *)
(* tables a vehicle holds about peers at rest: a peer is in the neighbour  *)
(* table as processBeacon stores it (under its id, with the position and   *)
(* the time of its beacon), and has a stored score that observations of    *)
(* 1.0 produce.                                                            *)
(***************************************************************************)
PeerPoint == <<10, 0, 0>>

NeighbourScores ==
    {(3 * FixedPoint) \div 10, (51 * FixedPoint) \div 100, FixedPoint}

NeighbourTables ==
    {[p \in S |-> VehicleInfo(p, Position(PeerPoint, StartTime),
                              MAX_TRUST_SCORE)] : S \in SUBSET Peers}

ScoreTables == UNION {[S -> NeighbourScores] : S \in SUBSET Peers}

InitNeighbours ==
    /\ now = StartTime
    /\ CryptoConstructed
    /\ \E point \in UninitializedPoints :
            localInfo = VehicleInfo(vehicleId, Position(point, 0),
                                    MAX_TRUST_SCORE)
    /\ routingTable = EmptyMap
    /\ neighborTable \in NeighbourTables
    /\ trustScores \in ScoreTables
    /\ trustUpdates = 0
    /\ lastOp = NoCall
    /\ returned = TRUE

IsVehicleTrusted ==
    \E id \in Peers :
        /\ Observe(Call("isVehicleTrusted", NoMessage, <<id>>,
                        isVehicleTrusted(trustScores, neighborTable, id),
                        FALSE, 177))
        /\ UNCHANGED <<now, cryptoVars, routerVars>>

\* calculateTrust: the score returned is kept beside the id asked about
CalculateTrust ==
    \E id \in Peers :
        /\ Observe(Call("calculateTrust", NoMessage,
                        <<id, calculateTrust(trustScores, neighborTable, id)>>,
                        TRUE, FALSE, 166))
        /\ UNCHANGED <<now, cryptoVars, routerVars>>

UpdatePeerTrust == UpdateTrustScoreOf(Peers, MaxTrustUpdates)

NextNeighbours ==
    \/ AdvanceRouter
    \/ UpdatePosition
    \/ UpdatePeerTrust
    \/ CalculateTrust
    \/ IsVehicleTrusted

SpecNeighbours == InitNeighbours /\ [][NextNeighbours]_vars

(***************************************************************************)
(* Route replacement.  Routes to one destination are offered through two   *)
(* next hops, one, nine or ten hops away, as time passes.                  *)
(***************************************************************************)
RouteNextHops == {"n1", "n2"}
RouteHopCounts == {1, MAX_HOP_COUNT - 1, MAX_HOP_COUNT}

ReplaceRoute == UpdateRouteOf(RouteNextHops, RouteHopCounts, {0})

NextRoutes ==
    \/ AdvanceRouter
    \/ ReplaceRoute

SpecRoutes == Init /\ [][NextRoutes]_vars

(***************************************************************************)
(* Two CryptoModule instances in one process.  The counter of              *)
(* createSecureMessage is a function-local static: one object for every    *)
(* instance of the process.  The instance followed is the one the          *)
(* variables describe; of the second instance only its createSecureMessage *)
(* calls are followed, which reach the first through the counter.  When    *)
(* the two instances call from two threads, the unsynchronized ++sequence  *)
(* of each is a data race: both increments take effect in either order,    *)
(* or one is lost and both messages carry the same number.                 *)
(***************************************************************************)
PeerCreateSecureMessage ==
    /\ sequence < MaxSent + MaxPeerSent
    /\ sequence' = sequence + 1
    /\ UNCHANGED <<now, privateKey, keyGens, messageHistory, channel,
                   routerVars, lastOp, returned>>

ConcurrentCreateSecureMessage ==
    \E payload \in Payloads,
       mine \in {sequence + 1, sequence + 2},
       after \in {sequence + 1, sequence + 2} :
        /\ sequence + 2 <= MaxSent + MaxPeerSent
        /\ mine <= after
        /\ sequence' = after
        /\ IF privateKey = NullPtr
           THEN /\ channel' = channel
                /\ Observe(Call("createSecureMessage", NoMessage,
                                <<payload>>, FALSE, TRUE, 117))
           ELSE LET msg == createdMessage(now, mine, privateKey, payload)
                IN  /\ channel' = channel \cup {msg}
                    /\ Observe(Call("createSecureMessage", msg,
                                    <<payload>>, TRUE, FALSE, 204))
        /\ UNCHANGED <<now, privateKey, keyGens, messageHistory, routerVars>>

InstanceCreateSecureMessage ==
    CreateSecureMessageUpTo(MaxSent + MaxPeerSent)

NextInstances ==
    \/ AdvanceEnvelope
    \/ GenerateKeyPair
    \/ InstanceCreateSecureMessage
    \/ PeerCreateSecureMessage
    \/ ConcurrentCreateSecureMessage

SpecInstances == InitCrypto /\ [][NextInstances]_vars

(***************************************************************************)
(* Movements.  A routing instance whose position is updated along a road:  *)
(* at rest, and at MAX_SPEED (2000 m in 36 s, 500 m in 9 s), the clock     *)
(* moving by half a second at first and by 9 s and 36 s.                   *)
(***************************************************************************)
MovementPoints == {<<0, 0, 0>>, <<2000, 0, 0>>, <<2500, 0, 0>>}
MovementSteps == {9 * MsPerSecond, 36 * MsPerSecond}

AdvanceMovement == Advance(MovementSteps, MaxMovementElapsed)

AdvanceSubSecond == Advance({MaxSubSecondElapsed}, MaxSubSecondElapsed)

MovementUpdatePosition ==
    \E point \in MovementPoints :
        UpdatePositionTo(point, <<localInfo.position>>)

NextMovement ==
    \/ AdvanceMovement
    \/ AdvanceSubSecond
    \/ MovementUpdatePosition

SpecMovement == Init /\ [][NextMovement]_vars

(***************************************************************************)
(* Claims about the crypto envelope.                                       *)
(***************************************************************************)
VerifyCalled == lastOp.op = "verifySecureMessage" /\ returned

\* C1: of two consecutive verifySecureMessage calls on the same fresh,
\* validly signed message that the replay cache does not hold, the first
\* succeeds and the second is rejected.
C1_ReplayRejection ==
    [][(lastOp'.op = "verifySecureMessage" /\ returned'
            /\ lastOp'.msg \in channel
            /\ isValidTimestamp(now, lastOp'.msg.timestamp))
        => /\ (~isReplayMessage(messageHistory, lastOp'.msg)
                    /\ ~lastOp'.repeat) => lastOp'.ret
           /\ lastOp'.repeat => (lastOp'.prevRet /\ ~lastOp'.ret)]_vars

\* C2: a message made by createSecureMessage on an instance with a key and
\* no certificate is accepted by verifySecureMessage on the same instance
\* while it is no older than MESSAGE_TIMEOUT and was not verified before.
C2_SignVerifyRoundTrip ==
    [][(lastOp'.op = "verifySecureMessage" /\ returned'
            /\ privateKey # NullPtr
            /\ lastOp'.msg \in channel
            /\ lastOp'.msg.senderCert = EmptyBytes
            /\ lastOp'.msg.signature.signer = privateKey
            /\ now - lastOp'.msg.timestamp <= MESSAGE_TIMEOUT
            /\ ~isReplayMessage(messageHistory, lastOp'.msg)
            /\ ~lastOp'.repeat)
        => lastOp'.ret]_vars

\* C7: the replay cache never holds more than MAX_MESSAGE_HISTORY records.
C7_ReplayCacheSizeBound == Len(messageHistory) <= MAX_MESSAGE_HISTORY

\* C8: when an operation has returned, every record of the replay cache
\* has a timestamp within [now - MESSAGE_TIMEOUT, now].
C8_ReplayCacheAgeBound ==
    (returned /\ lastOp.op # "none" /\ ~lastOp.threw)
        => \A i \in 1..Len(messageHistory) :
              /\ now - MESSAGE_TIMEOUT <= messageHistory[i].timestamp
              /\ messageHistory[i].timestamp <= now

\* C9: the freshness check of verifySecureMessage passes a timestamp of
\* exactly now - MESSAGE_TIMEOUT and fails one a millisecond older.
C9_FreshnessEdge ==
    VerifyCalled
        => /\ lastOp.msg.timestamp = now - MESSAGE_TIMEOUT
                => lastOp.line # 210
           /\ lastOp.msg.timestamp = now - MESSAGE_TIMEOUT - 1
                => lastOp.line = 210

C9_EdgeAccepted ==
    /\ VerifyCalled
    /\ lastOp.msg.timestamp = now - MESSAGE_TIMEOUT
    /\ lastOp.line # 210

\* C10: a timestamp d ms in the future passes the freshness check when
\* 0 < d <= MESSAGE_TIMEOUT and fails it when d > MESSAGE_TIMEOUT.
C10_FreshnessTwoSided ==
    (VerifyCalled /\ lastOp.msg.timestamp > now)
        => (lastOp.line # 210
                <=> lastOp.msg.timestamp - now <= MESSAGE_TIMEOUT)

(***************************************************************************)
(* Claims about the routing instance.                                      *)
(***************************************************************************)
\* C3: when receiveMessage returns failure, the neighbour table, the
\* routing table and the replay cache are as they were before the call.
C3_RejectedNoEffect ==
    [][(lastOp'.op = "receiveMessage" /\ returned' /\ ~lastOp'.ret)
        => UNCHANGED <<neighborTable, routingTable, messageHistory>>]_vars

C3_RejectedWithRoutes ==
    /\ lastOp.op = "receiveMessage"
    /\ returned
    /\ ~lastOp.ret
    /\ lastOp.arg = <<<<HELLO>>>>
    /\ routingTable # EmptyMap

NoExpiredEntry ==
    /\ \A d \in DOMAIN routingTable : ~RouteExpired(now, routingTable[d])
    /\ \A n \in DOMAIN neighborTable :
            ~NeighborExpired(now, neighborTable[n])

\* C4: when a public operation has returned, the routing table holds no
\* entry older than ROUTE_TIMEOUT and the neighbour table holds none older
\* than NEIGHBOR_TIMEOUT.
C4_NoExpiredEntryAfterOperation ==
    (returned /\ lastOp.op # "none" /\ ~lastOp.threw) => NoExpiredEntry

\* C5: every entry of the routing table has a hop count below
\* MAX_HOP_COUNT; updateRoute with a hop count of MAX_HOP_COUNT or more
\* returns false and leaves the table as it was; with a hop count of
\* MAX_HOP_COUNT - 1 and an entry that has not timed out it installs the
\* entry.
C5_HopCountBound ==
    [][/\ \A d \in DOMAIN routingTable' :
              routingTable'[d].hopCount < MAX_HOP_COUNT
       /\ (lastOp'.op = "updateRoute" /\ returned')
            => LET destination == lastOp'.arg[1]
                   entry == lastOp'.arg[2]
               IN  /\ entry.hopCount >= MAX_HOP_COUNT
                        => (~lastOp'.ret /\ UNCHANGED routingTable)
                   /\ (entry.hopCount = MAX_HOP_COUNT - 1
                            /\ ~RouteExpired(now, entry))
                        => /\ lastOp'.ret
                           /\ destination \in DOMAIN routingTable'
                           /\ routingTable'[destination] = entry]_vars

C5_LastHopInstalled ==
    /\ lastOp.op = "updateRoute"
    /\ returned
    /\ lastOp.ret
    /\ lastOp.arg[2].hopCount = MAX_HOP_COUNT - 1
    /\ routingTable[lastOp.arg[1]].hopCount = MAX_HOP_COUNT - 1

\* C6: the trust of the instance's own id is 1.0 in every state.
C6_SelfTrust ==
    /\ calculateTrust(trustScores, neighborTable, vehicleId) = MAX_TRUST_SCORE
    /\ isVehicleTrusted(trustScores, neighborTable, vehicleId)
    /\ localInfo.trustScore = MAX_TRUST_SCORE

(***************************************************************************)
(* Claims about sending and about the trust of next hops.                  *)
(***************************************************************************)
\* C11: sendData for a destination the routing table has no entry for
\* returns false from the failed route lookup, does not raise, reads no
\* route entry and leaves the routing table as it was.
C11_SendDataNoRoute ==
    [][(lastOp'.op = "sendData" /\ returned'
            /\ lastOp'.arg[1] \notin DOMAIN routingTable)
        => /\ ~lastOp'.ret
           /\ ~lastOp'.threw
           /\ lastOp'.line = 53
           /\ UNCHANGED routingTable]_vars

\* C12: sendData for a destination that has a route entry returns true
\* only if the entry has not timed out and its next hop is trusted; when
\* the next hop is not trusted the call does not return true and the entry
\* is gone from the routing table.
C12_SendDataGating ==
    [][(lastOp'.op = "sendData" /\ returned'
            /\ lastOp'.arg[1] \in DOMAIN routingTable)
        => LET entry == routingTable[lastOp'.arg[1]]
               trusted == isVehicleTrusted(trustScores, neighborTable,
                                           entry.nextHop)
           IN  /\ lastOp'.ret => (~RouteExpired(now, entry) /\ trusted)
               /\ ~trusted => /\ ~lastOp'.ret
                              /\ lastOp'.arg[1] \notin DOMAIN routingTable']_vars

\* C13: when an operation takes a vehicle's trust from TRUST_THRESHOLD or
\* more to less than TRUST_THRESHOLD, no entry of the routing table has
\* that vehicle as next hop once the operation has returned.
C13_UntrustedNextHopPurged ==
    [][returned'
        => \A p \in VehicleIds :
              (/\ isVehicleTrusted(trustScores, neighborTable, p)
               /\ ~isVehicleTrusted(trustScores', neighborTable', p))
                => \A d \in DOMAIN routingTable' :
                        routingTable'[d].nextHop # p]_vars

\* C14: when updateRoute has installed an entry with trust score 1.0 whose
\* next hop no trust observation has been made about, the next hop is
\* trusted; when updateTrustScore(P, 0.3) is the first observation about
\* the next hop P of a route, P is not trusted afterwards.
C14_NextHopTrustAsTested ==
    [][/\ (lastOp'.op = "updateRoute" /\ returned' /\ lastOp'.ret
                /\ lastOp'.arg[2].trustScore = MAX_TRUST_SCORE
                /\ lastOp'.arg[2].nextHop \notin DOMAIN trustScores')
            => isVehicleTrusted(trustScores', neighborTable',
                                lastOp'.arg[2].nextHop)
       /\ (lastOp'.op = "updateTrustScore" /\ returned'
                /\ lastOp'.arg[2] = (3 * FixedPoint) \div 10
                /\ lastOp'.arg[1] \notin DOMAIN trustScores
                /\ \E d \in DOMAIN routingTable :
                        routingTable[d].nextHop = lastOp'.arg[1])
            => ~isVehicleTrusted(trustScores', neighborTable',
                                 lastOp'.arg[1])]_vars

(***************************************************************************)
(* Claims about movement.                                                  *)
(***************************************************************************)
\* C15: on an initialized instance, updatePosition with a point 10 m from
\* the position stored less than a second before returns true and stores
\* the point; with a point 990 m or more away it returns false and leaves
\* the stored position, the routing table and the neighbour table alone.
C15_UpdatePositionOutcome ==
    [][(lastOp'.op = "updatePosition" /\ returned'
            /\ keyGens >= 1
            /\ now - localInfo.position.timestamp >= 0
            /\ now - localInfo.position.timestamp < MsPerSecond)
        => LET newPos == Position(lastOp'.arg[1], now)
               distance == calculateDistance(localInfo.position, newPos)
           IN  /\ distance = 10
                    => (lastOp'.ret /\ localInfo'.position = newPos)
               /\ distance >= 990
                    => /\ ~lastOp'.ret
                       /\ UNCHANGED <<localInfo, routingTable,
                                      neighborTable>>]_vars

\* the last position the instance knows of a vehicle: its own, once
\* initializeVehicle has succeeded, or the neighbour table's
KnownPositions(id) ==
    IF id = vehicleId
    THEN IF keyGens >= 1 THEN {localInfo.position} ELSE {}
    ELSE IF id \in DOMAIN neighborTable THEN {neighborTable[id].position}
    ELSE {}

\* d m in dt ms is more than MAX_SPEED km/h
AboveMaxSpeed(d, dt) == 3600 * d > MAX_SPEED * dt

\* C16: detectPositionFalsification(id, p) returns true when p is farther
\* from the last known position of id than MAX_SPEED allows in the time
\* between them, and the trust of id is halved by the call.
C16_TeleportDetected ==
    [][(lastOp'.op = "detectPositionFalsification" /\ returned')
        => LET id == lastOp'.arg[1]
               reported == Position(lastOp'.arg[2], now)
           IN  \A last \in KnownPositions(id) :
                  (/\ reported.timestamp >= last.timestamp
                   /\ AboveMaxSpeed(calculateDistance(last, reported),
                                    reported.timestamp - last.timestamp))
                    => /\ lastOp'.ret
                       /\ calculateTrust(trustScores', neighborTable', id)
                            = Halve(calculateTrust(trustScores,
                                                   neighborTable, id))]_vars

\* C17: a movement over dt <= 0 is rejected; a movement over dt > 0, a
\* fraction of a second included, that follows an accepted movement of
\* the same speed is accepted if and only if its speed is at most
\* MAX_SPEED (so one at exactly MAX_SPEED with no change of speed is
\* accepted).  With d m in dt ms the speed is 3600 d / dt km/h.
C17_MovementRule ==
    [][(lastOp'.op = "updatePosition" /\ returned')
        => LET from == lastOp'.arg[2]
               to == Position(lastOp'.arg[1], now)
               dt == to.timestamp - from.timestamp
               d == calculateDistance(from, to)
               from0 == lastOp.arg[2]
               dt0 == from.timestamp - from0.timestamp
               d0 == calculateDistance(from0, from)
           IN  /\ dt <= 0 => ~lastOp'.ret
               /\ (/\ dt > 0
                   /\ lastOp.op = "updatePosition"
                   /\ lastOp.ret
                   /\ d * dt0 = d0 * dt)
                    => (lastOp'.ret <=> ~AboveMaxSpeed(d, dt))]_vars

(***************************************************************************)
(* Claims about sequence numbers and failure reporting.                    *)
(***************************************************************************)
\* C18: the k-th message an instance creates carries sequence number
\* k - 1: the first carries 0.
C18_SequenceNumbering ==
    (lastOp.op = "createSecureMessage" /\ ~lastOp.threw)
        => lastOp.msg.sequenceNumber = Cardinality(channel) - 1

\* C19: of two consecutive createSecureMessage calls of an instance the
\* second message carries the number of the first plus one, whatever
\* calls another instance of the process makes in between or at the same
\* time.
C19_InstanceIsolation ==
    [][(/\ lastOp'.op = "createSecureMessage" /\ returned'
        /\ ~lastOp'.threw
        /\ lastOp.op = "createSecureMessage"
        /\ ~lastOp.threw)
        => lastOp'.msg.sequenceNumber = lastOp.msg.sequenceNumber + 1]_vars

\* C20: no public operation raises: sendData, findRoute, invalidateRoute
\* and sendBeacon on an instance without a private key return.
C20_NoExceptions ==
    lastOp.op \in {"sendData", "findRoute", "invalidateRoute", "sendBeacon"}
        => ~lastOp.threw

(***************************************************************************)
(* Claims about initialization, routes and beacons.                        *)
(***************************************************************************)
\* C21: a failed initializeVehicle leaves localInfo as it was, and on an
\* instance whose initializeVehicle has failed and never succeeded,
\* updatePosition, sendData, receiveMessage and updateRoute are rejected
\* and change nothing of the instance.
C21_FailedInitialize ==
    [][/\ (lastOp'.op = "initializeVehicle" /\ returned' /\ ~lastOp'.ret)
            => UNCHANGED localInfo
       /\ (/\ lastOp.op = "initializeVehicle"
           /\ ~lastOp.ret
           /\ keyGens = 0
           /\ returned'
           /\ lastOp'.op \in {"updatePosition", "sendData",
                              "receiveMessage", "updateRoute"})
            => /\ ~lastOp'.ret
               /\ UNCHANGED <<routerVars, messageHistory>>]_vars

\* C25: updateRoute with a next hop that is not in the neighbour table
\* returns false and leaves the routing table as it was, so every entry
\* of the routing table was installed with its next hop a neighbour.
C25_NextHopIsNeighbour ==
    [][(lastOp'.op = "updateRoute" /\ returned'
            /\ lastOp'.arg[2].nextHop \notin DOMAIN neighborTable)
        => (~lastOp'.ret /\ UNCHANGED routingTable)]_vars

\* C23: verifySecureMessage tests freshness, then the replay cache, then the
\* certificate, then the signature, and the first test that fails decides
\* the result (a stale message that is also recorded is rejected as stale,
\* at line 210); a call that rejects leaves the replay cache as it was, so
\* a rejected message cannot make a later one look replayed.
C23_CheckOrder ==
    [][(lastOp'.op = "verifySecureMessage" /\ returned')
        => LET message == lastOp'.msg
               stale == ~isValidTimestamp(now, message.timestamp)
               replayed == isReplayMessage(messageHistory, message)
               badCert == /\ message.senderCert # EmptyBytes
                          /\ d2i_X509(message.senderCert) = NullPtr
           IN  /\ stale => (lastOp'.line = 210 /\ ~lastOp'.ret)
               /\ (~stale /\ replayed)
                    => (lastOp'.line = 215 /\ ~lastOp'.ret)
               /\ (~stale /\ ~replayed /\ badCert)
                    => (lastOp'.line = 224 /\ ~lastOp'.ret)
               /\ (~stale /\ ~replayed /\ ~badCert) => lastOp'.line = 238
               /\ ~lastOp'.ret => UNCHANGED messageHistory]_vars

\* a stale message that is also in the replay cache was rejected as stale
C23_StaleAndRecorded ==
    /\ lastOp.op = "verifySecureMessage"
    /\ returned
    /\ ~isValidTimestamp(now, lastOp.msg.timestamp)
    /\ isReplayMessage(messageHistory, lastOp.msg)
    /\ lastOp.line = 210

(***************************************************************************)
(* Claims about trust.                                                     *)
(***************************************************************************)
\* C26: updateTrustScore(P, obs) stores 0.3 * obs + 0.7 * old for P, where
\* old is 0.0 for a peer without a stored score, and leaves the other
\* peers' scores alone; with observations in [0,1] every stored score stays
\* in [0,1], and calculateTrust returns a value in [0,1] for every vehicle.
C26_TrustLawAndRange ==
    /\ [](/\ \A id \in DOMAIN trustScores :
                /\ trustScores[id] >= MIN_TRUST_SCORE
                /\ trustScores[id] <= MAX_TRUST_SCORE
          /\ \A id \in VehicleIds \cup Destinations :
                /\ calculateTrust(trustScores, neighborTable, id)
                        >= MIN_TRUST_SCORE
                /\ calculateTrust(trustScores, neighborTable, id)
                        <= MAX_TRUST_SCORE)
    /\ [][(lastOp'.op = "updateTrustScore" /\ returned')
            => LET id == lastOp'.arg[1]
                   obs == lastOp'.arg[2]
                   old == IF id \in DOMAIN trustScores
                          THEN trustScores[id] ELSE 0
               IN  /\ DOMAIN trustScores' = DOMAIN trustScores \cup {id}
                   /\ 10 * trustScores'[id] = 3 * obs + 7 * old
                   /\ \A other \in DOMAIN trustScores \ {id} :
                        trustScores'[other] = trustScores[other]]_vars

\* a second observation of 1.0 was folded into a stored score of 0.3
C26_SecondUpdate ==
    /\ lastOp.op = "updateTrustScore"
    /\ returned
    /\ lastOp.arg = <<"n1", FixedPoint>>
    /\ trustUpdates = 2
    /\ trustScores["n1"] = (51 * FixedPoint) \div 100

(***************************************************************************)
(* Claims about route replacement.                                         *)
(***************************************************************************)
\* the order of the next-hop ids offered: "n1" before "n2"
SmallerId(a, b) == a = "n1" /\ b = "n2"

\* C24: when a route to the destination is cached, updateRoute replaces it
\* only if the new hop count is strictly lower, or the cached entry is
\* older than ROUTE_TIMEOUT / 2, or the new entry has the same hop count,
\* is newer, and its next hop has higher trust (or equal trust and the
\* smaller id); otherwise the cached entry stays.
C24_ReplacementPolicy ==
    [][(/\ lastOp'.op = "updateRoute"
        /\ returned'
        /\ lastOp'.arg[1] \in DOMAIN routingTable
        /\ routingTable'[lastOp'.arg[1]] # routingTable[lastOp'.arg[1]])
        => LET cached == routingTable[lastOp'.arg[1]]
               entry == lastOp'.arg[2]
               cachedTrust == calculateTrust(trustScores, neighborTable,
                                             cached.nextHop)
               entryTrust == calculateTrust(trustScores, neighborTable,
                                            entry.nextHop)
           IN  \/ entry.hopCount < cached.hopCount
               \/ 2 * (now - cached.timestamp) > ROUTE_TIMEOUT * MsPerSecond
               \/ /\ entry.hopCount = cached.hopCount
                  /\ entry.timestamp > cached.timestamp
                  /\ \/ entryTrust > cachedTrust
                     \/ /\ entryTrust = cachedTrust
                        /\ SmallerId(entry.nextHop, cached.nextHop)]_vars

(***************************************************************************)
(* Claims about beacons.                                                   *)
(***************************************************************************)
\* C22: receiveMessage on a HELLO that a peer P not yet in the neighbour
\* table built at this instant returns true and leaves P in the neighbour
\* table.
C22_AuthenticBeaconAccepted ==
    [][(/\ lastOp'.op = "receiveMessage"
        /\ returned'
        /\ Len(lastOp'.arg[1]) = 4
        /\ lastOp'.arg[1][1] = HELLO
        /\ lastOp'.arg[1][4] = now
        /\ lastOp'.arg[1][2] \notin DOMAIN neighborTable)
        => /\ lastOp'.ret
           /\ lastOp'.arg[1][2] \in DOMAIN neighborTable']_vars

C28_WellBehavedPeerTrusted ==
    [][(/\ lastOp.op = "receiveMessage"
        /\ lastOp'.op = "receiveMessage"
        /\ returned'
        /\ Len(lastOp.arg[1]) = 4
        /\ Len(lastOp'.arg[1]) = 4
        /\ lastOp.arg[1][1] = HELLO
        /\ lastOp'.arg[1][1] = HELLO
        /\ lastOp.arg[1][2] = lastOp'.arg[1][2]
        /\ lastOp.arg[1][4] < lastOp'.arg[1][4]
        /\ lastOp'.arg[1][4] = now)
        => LET P == lastOp'.arg[1][2]
           IN  /\ P \in DOMAIN trustScores'
               /\ P \in DOMAIN trustScores
                    => trustScores'[P] >= trustScores[P]
               /\ isVehicleTrusted(trustScores', neighborTable', P)]_vars

====
